---- MODULE Spec2Model ----
(***************************************************************************)
(* Model of the tutoring session of cloop-backend: the topic-chat routes   *)
(* (GET /:topicId greeting, POST /:topicId/message, POST /:topicId/option, *)
(* POST /:topicId/learn-more), the engine generateTopicChatResponse, the   *)
(* learning-turn tracker and the session metrics aggregator, for one       *)
(* learner and one topic.                                                  *)
(*                                                                         *)
(* Tables are sequences.  chat_goal_progress is kept by goal, the rows of   *)
(* one goal in updated_at order (oldest first), so "orderBy updated_at     *)
(* desc, take 1", which is only ever asked per goal, is the last row of    *)
(* the goal; a row's id gives the order of creation.  learning_turns is    *)
(* kept in created_at order.  Every query                                  *)
(* of these routes reads admin_chat through its chat_goal_progress rows    *)
(* (chat_id is unique per row), so an admin_chat message is kept as the    *)
(* msg field of the progress row that links it; a message stored without   *)
(* such a row is returned by no query.  The completion oracle (the OpenAI  *)
(* call) is a nondeterministic choice over a representative set of         *)
(* replies.                                                                *)
(***************************************************************************)
EXTENDS Integers, Sequences, FiniteSets, TLC

\* ---------------------------------------------------------------- bounds
NumGoals   == 2     \* goals of the topic
MaxTurns   == 5     \* graded answers of a session
MaxRows    == 4     \* chat_goal_progress rows
MaxExplain == 1     \* explain requests counted on the learning turns
MaxGraded  == 2     \* graded answers when single answers are graded
MaxTopicGoals == 3  \* goals of a topic whose stored session is aggregated
MaxScore   == 100   \* highest score_percent of a stored learning turn
MaxCalls   == 3     \* calls of a background job under way at once
NumTasks   == 2     \* content generation tasks
NumUsers   == 2     \* users with a push token
NumChapters == 2    \* chapters generateChapters returns for a subject
MaxChapterRows == 2 \* rows of one chapter that a task's subject may hold

Goals == 1..NumGoals

\* ------------------------------------------------------------- constants
RequiredQuestions == 2
HistoryTake == 10
WeakBelow == 70
TopicDoneAt == 50
CorrectFrom == 50

\* ----------------------------------------------------- oracle judgments
\* A raw feedback object as the oracle may return it inside user_correction:
\* has = the feedback field is an object; score = NoScore when score_percent
\* is missing or not a number; err = NoErr when error_type is missing.
NoScore == -1
NoErr == "none"

Feedback(is_correct, score, err) ==
  [has |-> TRUE, is_correct |-> is_correct, score |-> score, err |-> err]
NoFeedback == [has |-> FALSE, is_correct |-> FALSE, score |-> NoScore, err |-> NoErr]

\* What the learner typed: an ordinary answer, an "I don't know" phrase
\* (one matching /i don'?t know|no idea|unsure|skip|pass|no clue/i) or an
\* affirmative ("yes", "ok", "got it"), which no code tells from an answer.
RawKinds == {"answer", "idk", "yes"}

\* Learner inputs with the oracle's judgment of them.  A session is run with
\* answers found right (100) or wrong (10) ...
SessionInputs ==
  { <<"answer", Feedback(TRUE, 100, NoErr)>>,
    <<"answer", Feedback(FALSE, 10, "Conceptual")>> }

\* ... and single answers are graded over everything the oracle may say of
\* them: a low score called correct, a high score called incorrect, a zero or
\* missing score, a missing error type, no feedback object at all; an "I don't
\* know" graded as the prompt asks, or found correct all the same.
GradingInputs ==
  { <<"answer", Feedback(TRUE, 100, NoErr)>>,
    <<"answer", Feedback(TRUE, 40, NoErr)>>,
    <<"answer", Feedback(TRUE, 0, NoErr)>>,
    <<"answer", Feedback(FALSE, 85, "Spelling")>>,
    <<"answer", Feedback(FALSE, 0, NoErr)>>,
    <<"answer", Feedback(FALSE, NoScore, NoErr)>>,
    <<"answer", NoFeedback>>,
    <<"idk", Feedback(FALSE, 10, "Knowledge Gap")>>,
    <<"idk", Feedback(TRUE, 100, NoErr)>> }

\* an affirmative, which the oracle may still return a correction for
MovementInputs ==
  { <<"yes", Feedback(TRUE, 100, NoErr)>>,
    <<"yes", Feedback(FALSE, 10, "Conceptual")>> }

Judgments(inputs, raw) == { p[2] : p \in { q \in inputs : q[1] = raw } }

\* --------------------------------------------------------------- helpers
Last(s) == s[Len(s)]

\* Math.round(a / b) for a >= 0, b > 0
Round(a, b) == (2 * a + b) \div (2 * b)

Min(S) == CHOOSE x \in S : \A y \in S : x <= y

\* the last n elements of s (findMany orderBy desc, take n, then reverse)
TakeLast(s, n) == IF Len(s) <= n THEN s ELSE SubSeq(s, Len(s) - n + 1, Len(s))

\* ------------------------------------------------------------------ state
VARIABLES
  rows,        \* chat_goal_progress by goal, each goal's rows in updated_at order
  turns,       \* learning_turns, in created_at order
  topic,       \* topics row: completion_percent, is_completed
  optionRoute, \* the /option route has been registered on the router
  ended,       \* all goals have been complete at some earlier point
  last,        \* the prompt the engine took for the latest request: "summary"
               \* (shouldEndSession), "tutor", or "none" when it was not called
  topicGoals,  \* the topicGoals argument of calculateSessionMetrics
  metrics,     \* the results of the latest calls of calculateSessionMetrics
               \* on the tables as they stand (at most two are kept)
  reqs,        \* message requests in flight, by connection
  isProcessing, \* the flag of the background processor
  cycles,      \* the calls of processPendingTasks
  tasks,       \* content_generation_status: the status of every task
  chapters,    \* chapters: by task, the rows stored for each chapter
  runs,        \* the calls of processEngagementNotifications
  notifications, \* the engagement notifications created, by user
  handling     \* the message request being handled, by its calls of the oracle

\* the state of the background jobs, which no route touches
background == <<isProcessing, cycles, tasks, chapters, runs, notifications>>

vars == <<rows, turns, topic, optionRoute, ended, last, topicGoals, metrics, reqs,
          background, handling>>

\* ------------------------------------------------- background jobs at rest
\* the calls of processPendingTasks and of processEngagementNotifications
\* that can be under way at once, the tasks and the users with a push token
Calls == 1..MaxCalls
TaskIds == 1..NumTasks
Users == 1..NumUsers
ChapterIds == 1..NumChapters

IdleCall == [pc |-> "idle", by |-> "none", todo |-> <<>>]

\* no message request is being handled
NotHandling ==
  [pc |-> "idle", call |-> "none", asked |-> FALSE, waiting |-> FALSE, done |-> FALSE,
   attempts |-> 0, retries |-> 0, corr |-> FALSE, duplicates |-> 0, oracle |-> 0]

BackgroundIdle ==
  /\ isProcessing = FALSE
  /\ cycles = [c \in Calls |-> IdleCall]
  /\ tasks = [k \in TaskIds |-> "pending"]
  /\ chapters = [k \in TaskIds |-> [ch \in ChapterIds |-> 0]]
  /\ runs = [r \in Calls |-> IdleCall]
  /\ notifications = [u \in Users |-> 0]

\* ------------------------------------------------------ progress queries
\* every chat_goal_progress row of the learner, and how many there are
AllRows(rs) == UNION { { rs[g][i] : i \in 1..Len(rs[g]) } : g \in Goals }
RowCount(rs) == Cardinality(AllRows(rs))

\* goal.chat_goal_progress?.[0] && progress.is_completed, the row being the
\* goal's most recently updated one
LatestDone(rs, g) == rs[g] # <<>> /\ Last(rs[g]).done

\* a current goal that stays on the last goal once every goal is complete
CurrentGoalOrLast(rs) ==
  Min({ g \in Goals : ~(rs[g] # <<>> /\ rs[g][Len(rs[g])].done) } \cup { NumGoals })

\* "Find current goal (first incomplete goal)": 0 stands for null
CurrentGoal(rs) ==
  Min({ g \in Goals : ~LatestDone(rs, g) } \cup { NumGoals + 1 }) % (NumGoals + 1)

\* generateTopicChatResponse: completedGoalsCount === topicGoals.length
CompletedGoalsCount(rs) == Cardinality({ g \in Goals : LatestDone(rs, g) })
AllGoalsCompleted(rs) == CompletedGoalsCount(rs) = NumGoals

\* an engine that ends the session only when there is a goal to complete
AllGoalsCompletedOfSome(goals, rs) ==
  goals # {} /\ \A g \in goals : rs[g] # <<>> /\ rs[g][Len(rs[g])].done

\* allGoalsCompleted of the engine for any topicGoals argument:
\* topicGoals.filter(completed).length === topicGoals.length
AllGoalsCompletedOf(goals, rs) ==
  Cardinality({ g \in goals : LatestDone(rs, g) }) = Cardinality(goals)

\* findMany({where: {is_completed: true}, distinct: ['goal_id']}).length
DistinctCompleted(rs) ==
  Cardinality({ g \in Goals : \E i \in 1..Len(rs[g]) : rs[g][i].done })

\* completion_percent and is_completed of the topic
CompletionPercent(rs) ==
  IF NumGoals > 0 THEN Round(DistinctCompleted(rs) * 100, NumGoals) ELSE 0
\* a topic that counts as completed only with all of its goals
TopicRowWhenAllDone(rs) ==
  [completion_percent |-> CompletionPercent(rs),
   is_completed |-> CompletionPercent(rs) >= 100]

TopicRow(rs) ==
  [completion_percent |-> CompletionPercent(rs),
   is_completed |-> CompletionPercent(rs) >= TopicDoneAt]

\* a fresh row as every create / upsert-create writes it, linking message msg
NewRow(id, msg) ==
  [id |-> id, nq |-> 0, nc |-> 0, ni |-> 0, done |-> FALSE, msg |-> msg]

\* a fresh row for goal g, the latest of the goal from now on
Create(rs, g, msg) ==
  [rs EXCEPT ![g] = Append(rs[g], NewRow(RowCount(rs) + 1, msg))]

\* row i of goal g rewritten as r, the latest of the goal from now on
\* (updated_at: new Date())
Touch(rs, g, i, r) ==
  [rs EXCEPT ![g] = Append(SubSeq(rs[g], 1, i - 1) \o SubSeq(rs[g], i + 1, Len(rs[g])), r)]

\* one fresh progress row per stored message, all for goal g
RECURSIVE LinkAll(_, _, _)
LinkAll(rs, g, msgs) ==
  IF msgs = <<>> THEN rs
  ELSE LinkAll(Create(rs, g, Head(msgs)), g, Tail(msgs))

\* --------------------------------------------------------- chat queries
\* admin_chat.findMany({where: {chat_goal_progress: {some: ...}}}) in
\* created_at order: the messages of the rows, in the order they were created
Transcript(rs) ==
  [k \in 1..RowCount(rs) |-> (CHOOSE r \in AllRows(rs) : r.id = k).msg]

\* recentMessages (take 10, newest first) reversed
ChatHistory(rs) == TakeLast(Transcript(rs), HistoryTake)

\* ------------------------------------------------------------- messages
AiMsg(type, q) == [sender |-> "ai", type |-> type, q |-> q]
\* the learner's message; the type the route gives it afterwards (text or
\* user_correction) is read by no query
UserMsg == [sender |-> "user", type |-> "text", q |-> FALSE]

QuestionMsg == AiMsg("text", TRUE)              \* a text bubble containing '?'
PlainMsg    == AiMsg("text", FALSE)
MovementMsg == AiMsg("movement_prompt", TRUE)   \* "Should we move on?"
SummaryMsg  == AiMsg("session_summary", FALSE)

\* the engine's catch: "I'm here to help you learn!", "Could you rephrase that?"
FallbackMessages == <<PlainMsg, QuestionMsg>>

\* ------------------------------------------------- analyzeChatHistory
IsTutorMsg(m) == m.sender = "ai" /\ m.type \in {"text", "movement_prompt"}

analyzeChatHistory(chatHistory) ==
  LET aiMessages == SelectSeq(chatHistory, IsTutorMsg)
      IsQuestion(m) == m.q /\ m.type # "movement_prompt"
      allQuestions == SelectSeq(aiMessages, IsQuestion)
      hasLast == Len(aiMessages) > 0
  IN [questionsAsked |-> Len(allQuestions),
      hasLastQuestion |-> Len(allQuestions) > 0,
      hasAskedQuestion |-> hasLast /\ Last(aiMessages).q,
      isWaitingForMovement |-> hasLast /\ Last(aiMessages).type = "movement_prompt"]

\* ------------------------------------------- what the oracle's JSON holds
\* A parsed JSON value: a boolean, a number, a string, or nothing at all
JsBool(b) == [t |-> "boolean", b |-> b, n |-> 0, s |-> ""]
JsNum(n) == [t |-> "number", b |-> FALSE, n |-> n, s |-> ""]
JsStr(s) == [t |-> "string", b |-> FALSE, n |-> 0, s |-> s]
Undefined == [t |-> "undefined", b |-> FALSE, n |-> 0, s |-> ""]

\* !!v
Truthy(v) ==
  CASE v.t = "boolean" -> v.b
    [] v.t = "number" -> v.n # 0
    [] v.t = "string" -> v.s # ""
    [] OTHER -> FALSE

\* user_correction.feedback as the oracle may write it: an object whose
\* fields hold values of any kind, a bare string, or nothing
FeedbackObjects ==
  [t : {"object"},
   is_correct : {JsBool(TRUE), JsBool(FALSE), JsStr("yes"), Undefined},
   score_percent : {JsNum(85), JsStr("85"), Undefined},
   error_type : {JsStr("Spelling"), Undefined}]
RawFeedbacks == FeedbackObjects \cup {JsStr("good"), Undefined}

\* what normalizeUserCorrectionOptions reads of a feedback: whether it is
\* an object ("!feedback || typeof feedback !== 'object'"), !!is_correct,
\* the score when "typeof score_percent === 'number'", the error_type unless
\* "!error_type"
FromOracle(fb) ==
  IF fb.t # "object" THEN NoFeedback
  ELSE [has |-> TRUE,
        is_correct |-> Truthy(fb.is_correct),
        score |-> IF fb.score_percent.t = "number" THEN fb.score_percent.n ELSE NoScore,
        err |-> IF Truthy(fb.error_type) THEN fb.error_type.s ELSE NoErr]

\* ------------------------------------ normalizeUserCorrectionOptions
\* a normalisation that leaves a missing score missing
normalizeFeedbackUnscored(j) ==
  IF ~j.has
  THEN [is_correct |-> FALSE, score |-> 10, err |-> NoErr]
  ELSE LET score == IF j.score = 0 /\ ~j.is_correct THEN 10 ELSE j.score
           err == IF j.err = NoErr /\ ~j.is_correct THEN "Conceptual" ELSE j.err
       IN [is_correct |-> j.is_correct, score |-> score, err |-> err]

\* the feedback object after normalisation; err = NoErr stands for a missing
\* error_type
normalizeFeedback(j) ==
  IF ~j.has
  THEN [is_correct |-> FALSE, score |-> 10, err |-> NoErr]
  ELSE LET score == IF j.score # NoScore
                    THEN (IF j.score = 0 /\ ~j.is_correct THEN 10 ELSE j.score)
                    ELSE (IF j.is_correct THEN 100 ELSE 10)
           err == IF j.err = NoErr /\ ~j.is_correct THEN "Conceptual" ELSE j.err
       IN [is_correct |-> j.is_correct, score |-> score, err |-> err]

\* parsed.user_correction after normalizeUserCorrectionOptions: <<>> when the
\* reply has no user_correction, else the one normalised feedback
normalizeUserCorrectionOptions(corr) ==
  IF corr = <<>> THEN <<>> ELSE <<normalizeFeedback(corr[1])>>

\* ------------------------------------------- calculateSessionMetrics
\* a rating whose thresholds are exclusive
StarRatingAbove(overallScorePercent) ==
  IF overallScorePercent > 90 THEN 5
  ELSE IF overallScorePercent > 75 THEN 4
  ELSE IF overallScorePercent > 60 THEN 3
  ELSE IF overallScorePercent > 40 THEN 2
  ELSE 1

\* Determine star rating (1-5 stars)
StarRating(overallScorePercent) ==
  IF overallScorePercent >= 90 THEN 5
  ELSE IF overallScorePercent >= 75 THEN 4
  ELSE IF overallScorePercent >= 60 THEN 3
  ELSE IF overallScorePercent >= 40 THEN 2
  ELSE 1

RECURSIVE ScoreSum(_)
ScoreSum(evaluations) ==
  IF evaluations = <<>> THEN 0
  ELSE Head(evaluations).score + ScoreSum(Tail(evaluations))

\* learningTurns.reduce((sum, t) => sum + (t.explain_loop_count || 0), 0)
RECURSIVE ExplainSum(_)
ExplainSum(learningTurns) ==
  IF learningTurns = <<>> THEN 0
  ELSE Head(learningTurns).explain + ExplainSum(Tail(learningTurns))

\* learning_turns.findMany({orderBy: created_at desc, take: sessionLimit}),
\* reversed to chronological order; goals = the topicGoals argument
SessionLimit(goals) == Cardinality(goals) * 2
Evaluations(goals, tn) == TakeLast(tn, SessionLimit(goals))

IsCorrectEval(e) == e.is_correct

OverallScorePercent(evaluations) ==
  IF Len(evaluations) > 0
  THEN Round(ScoreSum(evaluations), Len(evaluations))
  ELSE 0

\* one goalPerformance entry, from the goal's most recently updated row
GoalPerformance(rs, g) ==
  LET questionsAsked == IF rs[g] = <<>> THEN 0 ELSE Last(rs[g]).nq
      correctCount   == IF rs[g] = <<>> THEN 0 ELSE Last(rs[g]).nc
      incorrectCount == IF rs[g] = <<>> THEN 0 ELSE Last(rs[g]).ni
      goalScore == IF questionsAsked > 0
                   THEN Round(correctCount * 100, questionsAsked) ELSE 0
  IN [questions_asked |-> questionsAsked,
      correct_answers |-> correctCount,
      incorrect_answers |-> incorrectCount,
      score_percent |-> goalScore,
      is_weak |-> goalScore < WeakBelow]

calculateSessionMetrics(goals, rs, tn) ==
  LET evaluations == Evaluations(goals, tn)
      totalQuestions == Len(evaluations)
      correctAnswers == Len(SelectSeq(evaluations, IsCorrectEval))
      overall == OverallScorePercent(evaluations)
      goalPerformance == [g \in goals |-> GoalPerformance(rs, g)]
  IN [total_questions |-> totalQuestions,
      correct_answers |-> correctAnswers,
      incorrect_answers |-> totalQuestions - correctAnswers,
      overall_score_percent |-> overall,
      star_rating |-> StarRating(overall),
      total_explanations |-> ExplainSum(evaluations),
      goal_performance |-> goalPerformance,
      weak_goals |-> { g \in goals : goalPerformance[g].is_weak },
      has_weak_areas |-> \E g \in goals : goalPerformance[g].is_weak]

\* generateSessionSummaryMessage: "Closing these gaps will raise your score
\* from score% to projectedScore%".  The gaps are the weak goals when there
\* are any, else the goals with incorrect answers; each adds the questions
\* of its progress row that were not answered correctly.
ProjectedScore(m) ==
  LET goals == DOMAIN m.goal_performance
      gapsSource == IF m.weak_goals # {} THEN m.weak_goals
                    ELSE { g \in goals : m.goal_performance[g].incorrect_answers > 0 }
      deficit(g) == LET d == m.goal_performance[g].questions_asked
                               - m.goal_performance[g].correct_answers
                    IN IF d > 0 THEN d ELSE 0
      sum[g \in 0..Cardinality(goals)] ==
        IF g = 0 THEN 0
        ELSE sum[g - 1] + (IF g \in gapsSource THEN deficit(g) ELSE 0)
      additionalCorrect == sum[Cardinality(goals)]
      projectedCorrect ==
        IF m.correct_answers + additionalCorrect < m.total_questions
        THEN m.correct_answers + additionalCorrect ELSE m.total_questions
  IN IF m.total_questions > 0
     THEN Round(projectedCorrect * 100, m.total_questions)
     ELSE m.overall_score_percent

\* The evaluations of the other version of calculateSessionMetrics kept in
\* the same file: all learning turns are fetched, grouped by goal, and
\* "goalProgress.forEach" adds a goal's turns once for every progress row of
\* the goal (the order of the rows changes no count and no sum)
EvaluationsByProgressRow(goals, rs, tn) ==
  LET errorDetails(g) == SelectSeq(tn, LAMBDA t : t.goal = g)
      added(g) ==
        LET r[i \in 0..Len(rs[g])] == IF i = 0 THEN <<>> ELSE r[i - 1] \o errorDetails(g)
        IN r[Len(rs[g])]
      all[g \in 0..Cardinality(goals)] ==
        IF g = 0 THEN <<>> ELSE all[g - 1] \o added(g)
  IN all[Cardinality(goals)]

\* ------------------------------------------------- the summary prompt
\* the fields of the metrics that buildSystemPrompt's safeMetrics names
Headline(m) ==
  [total_questions |-> m.total_questions,
   correct_answers |-> m.correct_answers,
   incorrect_answers |-> m.incorrect_answers,
   overall_score_percent |-> m.overall_score_percent,
   star_rating |-> m.star_rating]

\* safeMetrics when no sessionMetrics are given
SafeMetrics ==
  [total_questions |-> 0, correct_answers |-> 0, incorrect_answers |-> 0,
   overall_score_percent |-> 0, star_rating |-> 0]

\* The calls of generateTopicChatResponse in the routes, and whether userId
\* and topicId are passed: the message route's first call and its summary
\* call pass them, its duplicate-question retry and the option route's calls
\* do not
EngineCalls ==
  { [route |-> "message", call |-> "first", ids |-> TRUE],
    [route |-> "message", call |-> "retry", ids |-> FALSE],
    [route |-> "message", call |-> "summary", ids |-> TRUE],
    [route |-> "option", call |-> "first", ids |-> FALSE],
    [route |-> "option", call |-> "retry", ids |-> FALSE] }

\* "if (shouldEndSession && userId && topicId) sessionMetrics = await
\* calculateSessionMetrics(...)": <<>> stands for null
SessionMetricsOf(ids, goals, rs, tn) ==
  IF AllGoalsCompleted(rs) /\ ids THEN <<calculateSessionMetrics(goals, rs, tn)>>
  ELSE <<>>

\* session_metrics of the summary message the prompt asks for
PromptMetrics(sessionMetrics) ==
  IF sessionMetrics # <<>> THEN Headline(sessionMetrics[1]) ELSE SafeMetrics

\* analyzeMistakesForLearnMore: focus_areas[0], the weak goal with the lowest
\* score (the sort is stable, so the earliest goal among equals)
CurrentFocusArea(m) ==
  LET lowest == Min({ m.goal_performance[g].score_percent : g \in m.weak_goals })
  IN Min({ g \in m.weak_goals : m.goal_performance[g].score_percent = lowest })

\* ------------------------------------------ generateTopicChatResponse
\* What the oracle may answer to one engine call: both attempts fail, or a
\* parsed reply with its message bubbles and an optional user_correction
\* feedback.  same = the reply's first question is, once normalised, the text
\* of the last AI message of the history.  Asked for the session summary
\* only (shouldEndSession), it gives the summary instead of a question.
OracleFails == [fail |-> TRUE, msgs |-> <<>>, corr |-> <<>>, same |-> FALSE]

OracleReplies(judgments, shouldEndSession) ==
  { OracleFails }
  \cup (IF shouldEndSession
        THEN { [fail |-> FALSE, msgs |-> <<SummaryMsg>>, corr |-> <<>>, same |-> FALSE] }
        ELSE { [fail |-> FALSE, msgs |-> <<QuestionMsg>>, corr |-> <<>>, same |-> FALSE],
               [fail |-> FALSE, msgs |-> <<QuestionMsg>>, corr |-> <<>>, same |-> TRUE] })
  \cup { [fail |-> FALSE, msgs |-> <<MovementMsg>>, corr |-> <<j>>, same |-> FALSE] :
           j \in judgments }

\* the strict "user_correction only" retry: nothing usable, or a correction
RetryReplies(judgments) == { <<>> } \cup { <<j>> : j \in judgments }

\* the condition under which the engine asks the oracle again for a correction
RetryWanted(userMessageEmpty, a, shouldEndSession, reply) ==
  /\ a.hasAskedQuestion
  /\ reply.corr = <<>>
  /\ ~userMessageEmpty
  /\ ~shouldEndSession
  /\ ~a.isWaitingForMovement

\* an engine that grades the answer itself when the oracle has failed
generateTopicChatResponseFabricating(userMessageEmpty, a, shouldEndSession, reply, retry) ==
  IF reply.fail
  THEN [messages |-> FallbackMessages,
        user_correction |-> <<[is_correct |-> FALSE, score |-> 10, err |-> NoErr]>>]
  ELSE [messages |-> reply.msgs,
        user_correction |->
          IF RetryWanted(userMessageEmpty, a, shouldEndSession, reply) /\ retry # <<>>
          THEN normalizeUserCorrectionOptions(retry)
          ELSE normalizeUserCorrectionOptions(reply.corr)]

\* The parsed reply the engine returns.  a = analyzeChatHistory(chatHistory);
\* shouldEndSession = allGoalsCompleted of the topicGoals argument
generateTopicChatResponse(userMessageEmpty, a, shouldEndSession, reply, retry) ==
  IF reply.fail
  THEN [messages |-> FallbackMessages, user_correction |-> <<>>]
  ELSE [messages |-> reply.msgs,
        user_correction |->
          IF RetryWanted(userMessageEmpty, a, shouldEndSession, reply) /\ retry # <<>>
          THEN normalizeUserCorrectionOptions(retry)
          ELSE normalizeUserCorrectionOptions(reply.corr)]

HasAiMessage(chatHistory) ==
  \E i \in 1..Len(chatHistory) : chatHistory[i].sender = "ai"

\* the engine's answers over everything the oracle may reply
EngineResponses(userMessageEmpty, a, shouldEndSession, replies, retries) ==
  { generateTopicChatResponse(userMessageEmpty, a, shouldEndSession, r, c) :
      r \in replies, c \in retries }

\* "Duplicate-question fallback": a reply that repeats the last AI message
\* of the history is asked again once
Repeats(chatHistory, replies) ==
  IF HasAiMessage(chatHistory) THEN { r \in replies : r.same } ELSE {}

\* Every aiResponse a route can end up with: the engine's answer to the first
\* call or, when that answer repeats, its answer to the one retry
AiResponses(judgments, userMessageEmpty, retryEmpty, chatHistory, rs) ==
  EngineResponses(userMessageEmpty, analyzeChatHistory(chatHistory),
                  AllGoalsCompleted(rs),
                  OracleReplies(judgments, AllGoalsCompleted(rs))
                    \ Repeats(chatHistory, OracleReplies(judgments, AllGoalsCompleted(rs))),
                  RetryReplies(judgments))
  \cup
  (IF Repeats(chatHistory, OracleReplies(judgments, AllGoalsCompleted(rs))) = {} THEN {}
   ELSE EngineResponses(retryEmpty, analyzeChatHistory(chatHistory),
                        AllGoalsCompleted(rs),
                        OracleReplies(judgments, AllGoalsCompleted(rs)),
                        RetryReplies(judgments)))

\* --------------------------------------------------- progress and turns
\* counts an answer as correct on the oracle's word alone
isCorrectAnswerAsSaid(fb) == fb.is_correct

\* isCorrectAnswer = !!(feedback.is_correct && (feedback.score_percent || 0) >= 50)
isCorrectAnswer(fb) == fb.is_correct /\ fb.score >= CorrectFrom

\* completes the goal one question late
UpdateProgressLate(existingProgress, correct) ==
  LET newNumQuestions == existingProgress.nq + 1
  IN [existingProgress EXCEPT
        !.nq = newNumQuestions,
        !.nc = existingProgress.nc + (IF correct THEN 1 ELSE 0),
        !.ni = existingProgress.ni + (IF correct THEN 0 ELSE 1),
        !.done = (newNumQuestions > RequiredQuestions)]

\* leaves the incorrect answers uncounted
UpdateProgressNoIncorrect(existingProgress, correct) ==
  LET newNumQuestions == existingProgress.nq + 1
  IN [existingProgress EXCEPT
        !.nq = newNumQuestions,
        !.nc = existingProgress.nc + (IF correct THEN 1 ELSE 0),
        !.done = (newNumQuestions >= RequiredQuestions)]

\* the absolute counters written over existingProgress
UpdateProgress(existingProgress, correct) ==
  LET newNumQuestions == existingProgress.nq + 1
  IN [existingProgress EXCEPT
        !.nq = newNumQuestions,
        !.nc = existingProgress.nc + (IF correct THEN 1 ELSE 0),
        !.ni = existingProgress.ni + (IF correct THEN 0 ELSE 1),
        !.done = (newNumQuestions >= RequiredQuestions)]

\* the learning_turns row createLearningTurn stores for a graded answer
LearningTurn(g, fb, raw) ==
  [goal |-> g,
   feedback_json |-> fb,
   is_correct |-> isCorrectAnswer(fb),
   score |-> IF fb.score # 0 THEN fb.score
             ELSE (IF isCorrectAnswer(fb) THEN 100 ELSE 0),
   err |-> fb.err, raw |-> raw, explain |-> 0]

\* ------------------------------------------------------------ requests
\* buildSystemPrompt: the session summary only, once shouldEndSession holds
Prompt(rs) == IF AllGoalsCompleted(rs) THEN "summary" ELSE "tutor"

\* the connections message requests arrive on
Conns == {1, 2}
Idle == [pc |-> "idle"]

Init ==
  /\ rows = [g \in Goals |-> <<>>]
  /\ turns = <<>>
  /\ topic = [completion_percent |-> 0, is_completed |-> FALSE]
  /\ optionRoute = FALSE
  /\ ended = FALSE
  /\ last = "none"
  /\ topicGoals = Goals
  /\ metrics = <<>>
  /\ reqs = [c \in Conns |-> Idle]
  /\ BackgroundIdle
  /\ handling = NotHandling

WithinBounds ==
  /\ RowCount(rows') <= MaxRows
  /\ Len(turns') <= MaxTurns
  /\ ExplainSum(turns') <= MaxExplain

\* generateTopicGreeting: greeting plus first question, or its one-line fallback
GreetingReplies == { <<PlainMsg, QuestionMsg>>, <<PlainMsg>> }

\* GET /:topicId when the chat is still empty: store the greeting, one
\* chat_goal_progress row per greeting message, for the first goal
Greeting(msgs) ==
  /\ turns = <<>>
  /\ AllRows(rows) = {}
  /\ NumGoals > 0
  /\ rows' = LinkAll(rows, 1, msgs)
  /\ ended' = (ended \/ AllGoalsCompleted(rows'))
  /\ last' = "none"
  /\ UNCHANGED <<turns, topic, optionRoute, topicGoals, metrics, reqs, background, handling>>
  /\ WithinBounds

\* "Create chat_goal_progress link if currentGoal exists": a zero row linking
\* the user's message, unless the goal has a progress row already
LinkUserMessage(rs, currentGoal, userMessage) ==
  IF currentGoal # 0 /\ rs[currentGoal] = <<>>
  THEN Create(rs, currentGoal, userMessage)
  ELSE rs

\* "Update goal progress if user_correction feedback is provided": the
\* latest row of the goal is read and written back with the new counters
Grade(rs, currentGoal, feedback) ==
  Touch(rs, currentGoal, Len(rs[currentGoal]),
        UpdateProgress(Last(rs[currentGoal]), isCorrectAnswer(feedback)))

\* POST /:topicId/message.  raw = what the learner typed; userCorrection =
\* aiResponse.user_correction of the engine's answer.  The AI bubbles, and
\* those of the summary call after the last goal, are stored without a
\* progress row.
Message(raw, userCorrection) ==
  \E currentGoal \in { CurrentGoal(rows) } :
    LET graded == userCorrection # <<>> /\ currentGoal # 0
        linked == LinkUserMessage(rows, currentGoal, UserMsg)
    IN /\ rows' = IF graded THEN Grade(linked, currentGoal, userCorrection[1])
                  ELSE linked
       /\ turns' = IF graded
                   THEN Append(turns, LearningTurn(currentGoal, userCorrection[1], raw))
                   ELSE turns
       /\ topic' = IF graded THEN TopicRow(rows') ELSE topic
       /\ optionRoute' = (optionRoute \/ userCorrection # <<>>)
       /\ ended' = (ended \/ AllGoalsCompleted(rows'))
       /\ last' = Prompt(rows)
       /\ UNCHANGED <<topicGoals, metrics, reqs, background, handling>>
       /\ WithinBounds

\* a message request over the given learner inputs, with everything the
\* oracle may answer to its calls, while fewer than limit answers are logged
MessageRequest(inputs, limit) ==
  \E raw \in { p[1] : p \in inputs } :
    LET aiResponses == AiResponses(Judgments(inputs, raw), FALSE, FALSE,
                                   ChatHistory(rows), rows)
    IN \E userCorrection \in { a.user_correction : a \in aiResponses } :
         /\ Message(raw, userCorrection)
         /\ Len(turns') <= limit

\* "AUTO-GENERATE SESSION SUMMARY", run at the end of a graded message
\* request on the tables rs it has written: every sequence of bubbles the
\* request may append to its aiMessages.  The engine is called with an empty
\* user message, the chat history read when the request began and the goals
\* read again; each bubble of its answer is stored with
\* message_type: summaryMsg.message_type || 'session_summary'.
AutoSummary(rs, chatHistory) ==
  IF DistinctCompleted(rs) >= NumGoals /\ CurrentGoal(rs) = 0
  THEN { [i \in 1..Len(a.messages) |->
            [a.messages[i] EXCEPT !.type = IF @ = "" THEN "session_summary" ELSE @]] :
         a \in EngineResponses(TRUE, analyzeChatHistory(chatHistory),
                               AllGoalsCompleted(rs),
                               OracleReplies({}, AllGoalsCompleted(rs)), { <<>> }) }
  ELSE { <<>> }

\* all_goals_completed of a graded request's response:
\* completedGoalsCount >= totalGoalsCount
AllGoalsCompletedFlag(rs) == DistinctCompleted(rs) >= NumGoals

\* completedGoalsCount when the response is sent: "let completedGoalsCount =
\* 0", set to the number of goals with a completed row only inside the
\* grading block
CompletedGoalsCountOf(graded, rs) == IF graded THEN DistinctCompleted(rs) ELSE 0

\* ------------------------------------------------------------- option
Options == {"Got it", "Explain", "Other"}

\* learning_turns.findFirst({where: {user_id, goal_id, chat_id},
\* orderBy: created_at desc}), chat_id being the user message of turn t (0: of
\* no turn); a null goal (undefined filter) matches any goal
RecentLearningTurn(tn, g, t) ==
  IF t # 0 /\ (g = 0 \/ tn[t].goal = g) THEN t ELSE 0

\* an increment that also marks the answer as one that needed help
incrementExplainCountRegrading(tn, i) ==
  [tn EXCEPT ![i].explain = tn[i].explain + 1, ![i].is_correct = FALSE]

\* incrementExplainCount
incrementExplainCount(tn, i) ==
  [tn EXCEPT ![i].explain = tn[i].explain + 1]

\* a link that counts the question just asked on the goal's latest row
LinkCountingQuestion(rs, g, msgs) ==
  IF msgs = <<>> \/ g = 0 THEN rs
  ELSE IF rs[g] = <<>> THEN Create(rs, g, Head(msgs))
  ELSE [rs EXCEPT ![g][Len(rs[g])].nq = @ + 1]

\* "Link AI message to current goal": a progress row is created for a stored
\* AI message only while the goal has no progress row at all
RECURSIVE LinkIfNone(_, _, _)
LinkIfNone(rs, g, msgs) ==
  IF msgs = <<>> \/ g = 0 THEN rs
  ELSE LinkIfNone(IF rs[g] = <<>> THEN Create(rs, g, Head(msgs)) ELSE rs,
                  g, Tail(msgs))

\* chat_goal_progress.findFirst({where: {user_id, goal_id}}) without an
\* order: any row of the goal (as an index), 0 when there is none
FoundRows(rs, g) == IF g = 0 \/ rs[g] = <<>> THEN { 0 } ELSE 1..Len(rs[g])

\* "if (numQ >= 2 && !prog.is_completed)", p being the row found
MarkCompleted(rs, g, p) ==
  IF p # 0 /\ rs[g][p].nq >= RequiredQuestions /\ ~rs[g][p].done
  THEN [rs EXCEPT ![g][p].done = TRUE]
  ELSE rs

\* POST /:topicId/option.  t = the turn of the message the option was picked
\* on; messages = the bubbles of the engine's answer.  updatedCurrentGoal is
\* block-scoped, so finalCurrentGoal is currentGoal.
Option(t, option, p, messages) ==
  \E currentGoal \in { CurrentGoal(rows) } :
    \E marked \in { MarkCompleted(rows, currentGoal, p) } :
      /\ optionRoute
      /\ rows' = LinkIfNone(marked, currentGoal, messages)
      /\ turns' = IF option = "Explain" /\ RecentLearningTurn(turns, currentGoal, t) # 0
                  THEN incrementExplainCount(turns, RecentLearningTurn(turns, currentGoal, t))
                  ELSE turns
      /\ topic' = IF currentGoal # 0 THEN TopicRow(marked) ELSE topic
      /\ ended' = (ended \/ AllGoalsCompleted(rows'))
      /\ last' = Prompt(rows)
      /\ UNCHANGED <<optionRoute, topicGoals, metrics, reqs, background, handling>>
      /\ WithinBounds

\* an option request with everything the oracle may answer to its calls; the
\* option text is the user message ('' for "Got it" and "Explain")
OptionRequest(options) ==
  /\ optionRoute
  /\ \E option \in options :
       \E t \in (IF option = "Explain" THEN 0..Len(turns) ELSE { 0 }),
          p \in FoundRows(rows, CurrentGoal(rows)),
          messages \in { a.messages :
                          a \in AiResponses(Judgments(SessionInputs, "answer"),
                                            option \in {"Got it", "Explain"},
                                            option = "Got it", ChatHistory(rows), rows) } :
         Option(t, option, p, messages)

\* --------------------------------------------------------- learn-more
\* generateLearnMoreGreeting / generateLearnMoreResponse: the bubbles, and
\* whether the response carries a user_correction (stored as one more AI message)
LearnMoreReplies ==
  { [msgs |-> <<QuestionMsg>>, correction |-> FALSE],
    [msgs |-> <<QuestionMsg>>, correction |-> TRUE] }

\* POST /:topicId/learn-more
LearnMore(reply) ==
  LET sessionMetrics == calculateSessionMetrics(Goals, rows, turns)
      currentFocusArea == CurrentFocusArea(sessionMetrics)
      stored == reply.msgs \o
                (IF reply.correction THEN <<AiMsg("user_correction", FALSE)>> ELSE <<>>)
  IN /\ sessionMetrics.has_weak_areas
     /\ rows' = LinkAll(rows, currentFocusArea, stored)
     /\ ended' = (ended \/ AllGoalsCompleted(rows'))
     /\ last' = "none"
     /\ UNCHANGED <<turns, topic, optionRoute, topicGoals, metrics, reqs, background, handling>>
     /\ WithinBounds

Next ==
  \/ \E msgs \in GreetingReplies : Greeting(msgs)
  \/ MessageRequest(SessionInputs, MaxTurns)
  \/ OptionRequest({"Got it", "Other"})
  \/ \E reply \in LearnMoreReplies : LearnMore(reply)

Spec == Init /\ [][Next]_vars

\* Single answers graded over everything the oracle may say of them
NextGrading ==
  \/ \E msgs \in GreetingReplies : Greeting(msgs)
  \/ MessageRequest(GradingInputs, MaxGraded)

SpecGrading == Init /\ [][NextGrading]_vars

\* ------------------------------------------- concurrent message requests
\* POST /:topicId/message on connection c, taken in the three stretches
\* between which another request of the same learner can run (every await
\* gives way; each stretch is run here without giving way inside it).
\* The requests still to be logged: those in flight
InFlight == Cardinality({ c \in Conns : reqs[c] # Idle })

\* First stretch: the state is derived (chat history, current goal), the
\* user's message is linked, the engine answers and its bubbles are stored.
\* An answer that is not graded ends the request here.
MessageBegin(c, raw, userCorrection) ==
  \E currentGoal \in { CurrentGoal(rows) } :
    LET graded == userCorrection # <<>> /\ currentGoal # 0
    IN /\ reqs[c] = Idle
       /\ Len(turns) + InFlight < MaxGraded + 1
       /\ rows' = LinkUserMessage(rows, currentGoal, UserMsg)
       /\ optionRoute' = (optionRoute \/ userCorrection # <<>>)
       /\ ended' = (ended \/ AllGoalsCompleted(rows'))
       /\ last' = Prompt(rows)
       /\ reqs' = IF graded
                  THEN [reqs EXCEPT ![c] = [pc |-> "answered", goal |-> currentGoal,
                                            feedback |-> userCorrection[1], raw |-> raw]]
                  ELSE reqs
       /\ UNCHANGED <<turns, topic, topicGoals, metrics, background, handling>>
       /\ WithinBounds

\* Second stretch: "Fetch or find existing progress for this goal"
ReadProgress(c) ==
  /\ reqs[c].pc = "answered"
  /\ reqs' = [reqs EXCEPT ![c] =
                [pc |-> "read", goal |-> reqs[c].goal, feedback |-> reqs[c].feedback,
                 raw |-> reqs[c].raw,
                 existingProgress |-> Last(rows[reqs[c].goal])]]
  /\ UNCHANGED <<rows, turns, topic, optionRoute, ended, last, topicGoals, metrics, background, handling>>

\* the place of the row with this id among the rows of goal g
RowIndex(rs, g, id) == CHOOSE i \in 1..Len(rs[g]) : rs[g][i].id = id

\* Third stretch: the learning turn is logged and the counters computed from
\* the row as it was read are written over the row with that id
WriteProgress(c) ==
  /\ reqs[c].pc = "read"
  /\ \E g \in { reqs[c].goal } :
       /\ rows' = Touch(rows, g, RowIndex(rows, g, reqs[c].existingProgress.id),
                        UpdateProgress(reqs[c].existingProgress,
                                       isCorrectAnswer(reqs[c].feedback)))
       /\ turns' = Append(turns, LearningTurn(g, reqs[c].feedback, reqs[c].raw))
  /\ topic' = TopicRow(rows')
  /\ ended' = (ended \/ AllGoalsCompleted(rows'))
  /\ reqs' = [reqs EXCEPT ![c] = Idle]
  /\ UNCHANGED <<optionRoute, last, topicGoals, metrics, background, handling>>
  /\ WithinBounds

\* a request arriving on connection c, with everything the oracle may answer
MessageArrives(c) ==
  \E raw \in { p[1] : p \in SessionInputs } :
    \E userCorrection \in
         { a.user_correction :
             a \in AiResponses(Judgments(SessionInputs, raw), FALSE, FALSE,
                               ChatHistory(rows), rows) } :
      MessageBegin(c, raw, userCorrection)

NextConc ==
  \/ \E msgs \in GreetingReplies : Greeting(msgs)
  \/ \E c \in Conns : MessageArrives(c)
  \/ \E c \in Conns : ReadProgress(c)
  \/ \E c \in Conns : WriteProgress(c)

SpecConc == Init /\ [][NextConc]_vars

\* --------------------------------------------- aggregating a stored session
\* the learning turn stored for an answer to goal g the oracle scored s and
\* called correct or not
ScoredTurn(g, correct, s) ==
  LearningTurn(g, normalizeFeedback(Feedback(correct, s, NoErr)), "answer")

\* the goal the i-th answer of a session is for: two questions per goal
GoalOfTurn(i) == ((i - 1) \div RequiredQuestions) + 1

\* the turn logs of the sessions of a topic of n goals, answers found right
\* (100) or wrong (10) ...
SessionLogs(n) ==
  { [i \in DOMAIN f |-> ScoredTurn(GoalOfTurn(i), f[i], IF f[i] THEN 100 ELSE 10)] :
      f \in UNION { [1..k -> BOOLEAN] : k \in 0..(n * RequiredQuestions) } }

\* ... and the logs of one answer, over every score
SingleLogs == { <<ScoredTurn(1, c, s)>> : c \in BOOLEAN, s \in 0..MaxScore }

\* the progress rows a session leaves behind for its log: one row per goal
\* answered, with the counters of the goal's turns
ProgressOf(goals, tn) ==
  [g \in goals |->
     LET mine == SelectSeq(tn, LAMBDA t : t.goal = g)
         right == SelectSeq(mine, LAMBDA t : t.is_correct)
     IN IF mine = <<>> THEN <<>>
        ELSE << [id |-> g, nq |-> Len(mine), nc |-> Len(right),
                 ni |-> Len(mine) - Len(right),
                 done |-> (Len(mine) >= RequiredQuestions), msg |-> UserMsg] >>]

InitMetrics ==
  \E n \in 1..MaxTopicGoals :
    \E log \in SessionLogs(n) \cup SingleLogs :
      LET done == { g \in 1..n : ProgressOf(1..n, log)[g] # <<>>
                                   /\ ProgressOf(1..n, log)[g][1].done }
      IN /\ topicGoals = 1..n
         /\ turns = log
         /\ rows = ProgressOf(1..n, log)
         /\ topic = [completion_percent |-> Round(Cardinality(done) * 100, n),
                     is_completed |-> Round(Cardinality(done) * 100, n) >= TopicDoneAt]
         /\ optionRoute = (log # <<>>)
         /\ ended = (Cardinality(done) = n)
         /\ last = "none"
         /\ metrics = <<>>
         /\ reqs = [c \in Conns |-> Idle]
         /\ BackgroundIdle
         /\ handling = NotHandling

\* a call that drops from the log the turns it has read
CalculateSessionMetricsConsuming ==
  /\ metrics' = TakeLast(Append(metrics, calculateSessionMetrics(topicGoals, rows, turns)), 2)
  /\ turns' = SubSeq(turns, 1, Len(turns) - Len(Evaluations(topicGoals, turns)))
  /\ UNCHANGED <<rows, topic, optionRoute, ended, last, topicGoals, reqs, background, handling>>

\* a call of calculateSessionMetrics on the stored session: it queries
\* chat_goal_progress and learning_turns and returns the metrics; the results
\* of the latest two calls are kept
CalculateSessionMetrics ==
  /\ metrics' = TakeLast(Append(metrics, calculateSessionMetrics(topicGoals, rows, turns)), 2)
  /\ UNCHANGED <<rows, turns, topic, optionRoute, ended, last, topicGoals, reqs, background, handling>>

NextMetrics == CalculateSessionMetrics

SpecMetrics == InitMetrics /\ [][NextMetrics]_vars

\* ------------------------------------------- requests on a stored session
\* The tables a session of graded answers leaves behind: the greeting's rows
\* rs and then, for every judgment of the log in turn, what a message request
\* whose answer the oracle judged so has written
RECURSIVE Replay(_, _, _)
Replay(rs, tn, judged) ==
  IF judged = <<>> \/ CurrentGoal(rs) = 0 THEN [rows |-> rs, turns |-> tn]
  ELSE LET currentGoal == CurrentGoal(rs)
           feedback == normalizeFeedback(Head(judged))
       IN Replay(Grade(LinkUserMessage(rs, currentGoal, UserMsg), currentGoal, feedback),
                 Append(tn, LearningTurn(currentGoal, feedback, "answer")),
                 Tail(judged))

\* the sessions a request can arrive in: with or without a stored greeting,
\* after 0 to 2 x goals answers found right or wrong
StoredSessions ==
  { Replay(LinkAll([g \in Goals |-> <<>>], 1, msgs), <<>>, judged) :
      msgs \in GreetingReplies \cup { <<>> },
      judged \in UNION { [1..k -> Judgments(SessionInputs, "answer")] :
                           k \in 0..(NumGoals * RequiredQuestions) } }

InitStored ==
  \E session \in StoredSessions :
    /\ rows = session.rows
    /\ turns = session.turns
    /\ topic = IF session.turns = <<>>
               THEN [completion_percent |-> 0, is_completed |-> FALSE]
               ELSE TopicRow(session.rows)
    /\ optionRoute = (session.turns # <<>>)
    /\ ended = AllGoalsCompleted(session.rows)
    /\ last = "none"
    /\ topicGoals = Goals
    /\ metrics = <<>>
    /\ reqs = [c \in Conns |-> Idle]
    /\ BackgroundIdle
    /\ handling = NotHandling

\* what the engine returns when the oracle call fails, or its output cannot
\* be parsed, on both attempts
DegradedResponses(raw) ==
  EngineResponses(FALSE, analyzeChatHistory(ChatHistory(rows)), AllGoalsCompleted(rows),
                  { OracleFails }, RetryReplies(Judgments(GradingInputs, raw)))

\* a message request during which the oracle fails
DegradedRequest ==
  \E raw \in RawKinds :
    \E aiResponse \in DegradedResponses(raw) :
      Message(raw, aiResponse.user_correction)

NextDegraded == DegradedRequest

SpecDegraded == InitStored /\ [][NextDegraded]_vars

\* explanation requests arriving on a stored session
NextExplain == OptionRequest({"Explain"})

SpecExplain == InitStored /\ [][NextExplain]_vars

\* affirmatives typed on a stored session, between "Got it" options
NextMovement ==
  \/ OptionRequest({"Got it"})
  \/ MessageRequest(MovementInputs, MaxTurns)

SpecMovement == InitStored /\ [][NextMovement]_vars

\* ------------------------------------------ answers the oracle words freely
\* a message request whose answer the oracle judges with the feedback fb
GradeOracleOutput(fb) ==
  MessageRequest({ <<"answer", FromOracle(fb)>> }, MaxGraded)

NextNormalize ==
  \/ \E msgs \in GreetingReplies : Greeting(msgs)
  \/ \E fb \in RawFeedbacks : GradeOracleOutput(fb)

SpecNormalize == Init /\ [][NextNormalize]_vars

\* ------------------------------------------ a learning turn that is not stored
\* POST /:topicId/message with a graded answer whose learning turn is not
\* created: calculateMasteryScore or createLearningTurn throws, the route
\* logs the error ("Don't fail the request if learning turn creation fails")
\* and goes on to write the goal's counters and the topic
MessageUnlogged(raw, userCorrection) ==
  \E currentGoal \in { CurrentGoal(rows) } :
    /\ userCorrection # <<>>
    /\ currentGoal # 0
    /\ rows' = Grade(LinkUserMessage(rows, currentGoal, UserMsg), currentGoal,
                     userCorrection[1])
    /\ topic' = TopicRow(rows')
    /\ optionRoute' = TRUE
    /\ ended' = (ended \/ AllGoalsCompleted(rows'))
    /\ last' = Prompt(rows)
    /\ UNCHANGED <<turns, topicGoals, metrics, reqs, background, handling>>
    /\ WithinBounds

\* such a request, with everything the oracle may answer to its calls
UnloggedRequest(inputs) ==
  \E raw \in { p[1] : p \in inputs } :
    \E userCorrection \in
         { a.user_correction :
             a \in AiResponses(Judgments(inputs, raw), FALSE, FALSE,
                               ChatHistory(rows), rows) } :
      MessageUnlogged(raw, userCorrection)

NextTurnLog ==
  \/ \E msgs \in GreetingReplies : Greeting(msgs)
  \/ MessageRequest(SessionInputs, MaxTurns)
  \/ UnloggedRequest(SessionInputs)

SpecTurnLog == Init /\ [][NextTurnLog]_vars

\* ------------------------------------------ every route, with "Explain"
\* the greeting, message, option and learn-more routes of a short session,
\* the option route with its explanation requests
NextRoutes ==
  \/ \E msgs \in GreetingReplies : Greeting(msgs)
  \/ MessageRequest(SessionInputs, MaxGraded + 1)
  \/ OptionRequest({"Explain", "Got it"})
  \/ \E reply \in LearnMoreReplies : LearnMore(reply)

SpecRoutes == Init /\ [][NextRoutes]_vars

\* --------------------------------------------- the background processor
\* what the routes keep
routes == <<rows, turns, topic, optionRoute, ended, last, topicGoals, metrics, reqs>>

\* who calls processPendingTasks: startContinuousProcessing once at its
\* start, the interval timer every 30 seconds, triggerManualProcessing
Triggers == {"startup", "interval", "manual"}

\* a call slot that holds no call under way
Free(call) == call.pc \in {"idle", "skipped"}

\* findMany({where: {OR: [{status: 'pending'}, {status: 'failed'}]},
\* orderBy: {created_at: 'asc'}})
PendingTasks(ts) ==
  SelectSeq([k \in TaskIds |-> k], LAMBDA k : ts[k] \in {"pending", "failed"})

\* a processor that starts a cycle whatever the flag says
PastGuardAlways(processing) == TRUE

\* "if (isProcessing) { ...; return; }"
PastGuard(processing) == ~processing

\* processPendingTasks is called by trigger by: it returns at once while a
\* cycle is under way, else it raises the flag and reads the tasks to process
CycleStarts(c, by) ==
  /\ Free(cycles[c])
  /\ IF PastGuard(isProcessing)
     THEN /\ isProcessing' = TRUE
          /\ cycles' = [cycles EXCEPT ![c] = [pc |-> "running", by |-> by,
                                              todo |-> PendingTasks(tasks)]]
     ELSE /\ cycles' = [cycles EXCEPT ![c] = [pc |-> "skipped", by |-> by,
                                              todo |-> <<>>]]
          /\ UNCHANGED isProcessing
  /\ UNCHANGED <<routes, handling, tasks, chapters, runs, notifications>>

\* what a cycle makes of one task: the pipeline completes it, the task is
\* marked failed (no user, or an error), or it is passed over (profile
\* incomplete, generation reported as under way)
Outcomes == {"completed", "failed", "kept"}

\* generateChaptersForSubject: one chapters.create per chapter of the
\* oracle's answer, in order; stored of them are created before an error
generateChaptersForSubject(cs, stored) ==
  [ch \in ChapterIds |-> IF ch <= stored THEN cs[ch] + 1 ELSE cs[ch]]

\* runContentGenerationPipeline: nothing is generated on a status completed
\* or in_progress; else the chapters are generated and the status becomes
\* completed, or failed when a step throws after stored chapters
runContentGenerationPipeline(status, cs, outcome, stored) ==
  IF status \in {"completed", "in_progress"}
  THEN [status |-> status, chapters |-> cs]
  ELSE IF outcome = "completed"
  THEN [status |-> "completed",
        chapters |-> generateChaptersForSubject(cs, NumChapters)]
  ELSE [status |-> "failed",
        chapters |-> generateChaptersForSubject(cs, stored)]

\* "for (const task of pendingTasks)": one task of the cycle is handled
TaskProcessed(c, outcome) ==
  /\ cycles[c].pc = "running"
  /\ cycles[c].todo # <<>>
  /\ \E k \in { Head(cycles[c].todo) }, stored \in 0..NumChapters :
       \E after \in { IF outcome = "kept"
                       THEN [status |-> tasks[k], chapters |-> chapters[k]]
                       ELSE runContentGenerationPipeline(tasks[k], chapters[k],
                                                         outcome, stored) } :
         /\ \A ch \in ChapterIds : after.chapters[ch] <= MaxChapterRows
         /\ tasks' = [tasks EXCEPT ![k] = after.status]
         /\ chapters' = [chapters EXCEPT ![k] = after.chapters]
  /\ cycles' = [cycles EXCEPT ![c].todo = Tail(cycles[c].todo)]
  /\ UNCHANGED <<routes, handling, isProcessing, runs, notifications>>

\* a cycle whose flag is lowered on its last statement only: an exit that
\* leaves tasks unhandled keeps the flag raised
CycleEndsWithoutFinally(c) ==
  /\ cycles[c].pc = "running"
  /\ isProcessing' = (cycles[c].todo # <<>>)
  /\ cycles' = [cycles EXCEPT ![c] = IdleCall]
  /\ UNCHANGED <<routes, handling, tasks, chapters, runs, notifications>>

\* the cycle is over, its tasks handled or an error caught by the outer
\* catch: "finally { isProcessing = false; }"
CycleEnds(c) ==
  /\ cycles[c].pc = "running"
  /\ isProcessing' = FALSE
  /\ cycles' = [cycles EXCEPT ![c] = IdleCall]
  /\ UNCHANGED <<routes, handling, tasks, chapters, runs, notifications>>

NextProcessor ==
  \/ \E c \in Calls, by \in Triggers : CycleStarts(c, by)
  \/ \E c \in Calls, outcome \in Outcomes : TaskProcessed(c, outcome)
  \/ \E c \in Calls : CycleEnds(c)

SpecProcessor == Init /\ [][NextProcessor]_vars

\* the user whose subject a task generates
TaskUser(k) == ((k - 1) % NumUsers) + 1

\* handleUserSignup: the status of every subject of the user is upserted,
\* "update: { status: 'pending', ... }" when the row exists
handleUserSignup(u) ==
  /\ tasks' = [k \in TaskIds |-> IF TaskUser(k) = u THEN "pending" ELSE tasks[k]]
  /\ UNCHANGED <<routes, handling, isProcessing, cycles, chapters, runs,
                 notifications>>

NextPipeline ==
  \/ NextProcessor
  \/ \E u \in Users : handleUserSignup(u)

SpecPipeline == Init /\ [][NextPipeline]_vars

\* every await of a cycle settles (a query, a pipeline run, a notification
\* and the three-second pause each resolve or reject), so a cycle under way
\* goes on to its next task and reaches the end of processPendingTasks
SpecProcessorFair ==
  /\ Init
  /\ [][NextProcessor]_vars
  /\ WF_vars(\E c \in Calls, outcome \in Outcomes : TaskProcessed(c, outcome))
  /\ WF_vars(\E c \in Calls : CycleEnds(c))

\* --------------------------------------------- engagement notifications
\* who calls processEngagementNotifications: the hourly timer, and the
\* timeout 10 seconds after the start
EngagementTriggers == {"hourly", "startup"}

\* users.findMany({where: {expo_push_token: {not: null}}})
UsersWithToken == [u \in Users |-> u]

\* processEngagementNotifications is called: it reads the users to notify
RunStarts(r, by) ==
  /\ Free(runs[r])
  /\ runs' = [runs EXCEPT ![r] = [pc |-> "running", by |-> by, todo |-> UsersWithToken]]
  /\ UNCHANGED <<routes, handling, isProcessing, cycles, tasks, chapters, notifications>>

\* "Check last engagement notification time" for the next user of the run:
\* a user notified within the cool-down is passed over (every notification
\* of the model is that recent)
CoolDownChecked(r) ==
  /\ runs[r].pc = "running"
  /\ runs[r].todo # <<>>
  /\ runs' = IF notifications[Head(runs[r].todo)] > 0
             THEN [runs EXCEPT ![r].todo = Tail(runs[r].todo)]
             ELSE [runs EXCEPT ![r].pc = "sending"]
  /\ UNCHANGED <<routes, handling, isProcessing, cycles, tasks, chapters, notifications>>

\* "Send Notification": createNotification for the user that passed the check
NotificationSent(r) ==
  /\ runs[r].pc = "sending"
  /\ notifications' = [notifications EXCEPT ![Head(runs[r].todo)] = @ + 1]
  /\ runs' = [runs EXCEPT ![r].pc = "running", ![r].todo = Tail(runs[r].todo)]
  /\ UNCHANGED <<routes, handling, isProcessing, cycles, tasks, chapters>>

\* the loop is over
RunEnds(r) ==
  /\ runs[r].pc = "running"
  /\ runs[r].todo = <<>>
  /\ runs' = [runs EXCEPT ![r] = IdleCall]
  /\ UNCHANGED <<routes, handling, isProcessing, cycles, tasks, chapters, notifications>>

NextEngagement ==
  \/ \E r \in Calls, by \in EngagementTriggers : RunStarts(r, by)
  \/ \E r \in Calls : CoolDownChecked(r)
  \/ \E r \in Calls : NotificationSent(r)
  \/ \E r \in Calls : RunEnds(r)

SpecEngagement == Init /\ [][NextEngagement]_vars

\* --------------------------------- the oracle calls of one message request
\* POST /:topicId/message taken call by call.  handling.call is the call of
\* generateTopicChatResponse under way (the first one, the duplicate-question
\* retry, the summary call); attempts and retries count the oracle calls of
\* that call, oracle those of the whole request.  asked, waiting and done are
\* hasAskedQuestion, isWaitingForMovement and shouldEndSession of the call.

\* const maxAttempts = 2
maxAttempts == 2

\* the route calls the engine: attempts = 0 at the top of its loop
EngineCalled(h, call, shouldEndSession) ==
  [h EXCEPT !.pc = "attempt", !.call = call, !.done = shouldEndSession,
            !.attempts = 0, !.retries = 0]

\* a message arrives while none is handled; the message is never empty
\* (message || 'User shared a file')
MessageReceived(asked, waiting, allGoalsCompleted) ==
  /\ handling.pc \in {"idle", "responded"}
  /\ handling' = EngineCalled([NotHandling EXCEPT !.asked = asked, !.waiting = waiting],
                              "first", allGoalsCompleted)
  /\ UNCHANGED <<routes, background>>

\* One pass of "while (attempts < maxAttempts)": the oracle is called; its
\* output parses, with a user_correction or without, or the call or the
\* parse fails.  A failure on the last attempt is thrown to the outer catch,
\* which returns the fallback messages.
PrimaryAttempt(outcome) ==
  /\ handling.pc = "attempt"
  /\ handling.attempts < maxAttempts
  /\ handling' =
       [handling EXCEPT
          !.attempts = @ + 1,
          !.oracle = @ + 1,
          !.corr = (outcome = "correction"),
          !.pc = IF outcome # "failure" THEN "parsed"
                 ELSE IF handling.attempts + 1 = maxAttempts THEN "returned"
                 ELSE "attempt"]
  /\ UNCHANGED <<routes, background>>

\* a retry made after every parsed reply, the summary's included
StrictRetryUnconditional(h) == TRUE

\* "No user_correction found but question was asked": the one strict retry,
\* whose answer is merged when it parses and carries a user_correction and
\* is dropped otherwise
StrictRetryWanted(h) == h.asked /\ ~h.corr /\ ~h.done /\ ~h.waiting

StrictRetry(outcome) ==
  /\ handling.pc = "parsed"
  /\ StrictRetryWanted(handling)
  /\ handling' = [handling EXCEPT !.retries = @ + 1, !.oracle = @ + 1,
                                   !.corr = (outcome = "correction"),
                                   !.pc = "returned"]
  /\ UNCHANGED <<routes, background>>

\* return parsed, with no retry
ParsedReturned ==
  /\ handling.pc = "parsed"
  /\ ~StrictRetryWanted(handling)
  /\ handling' = [handling EXCEPT !.pc = "returned"]
  /\ UNCHANGED <<routes, background>>

\* "Duplicate-question fallback (retry once)": the first answer repeats the
\* last AI message of the history, and the engine is called once more
DuplicateRetry ==
  /\ handling.pc = "returned"
  /\ handling.call = "first"
  /\ handling' = [EngineCalled(handling, "duplicate", handling.done)
                    EXCEPT !.duplicates = @ + 1]
  /\ UNCHANGED <<routes, background>>

\* the answer is graded and completes the last goal: the summary call
SummaryCalled ==
  /\ handling.pc = "returned"
  /\ handling.call \in {"first", "duplicate"}
  /\ handling.corr
  /\ ~handling.done
  /\ handling' = EngineCalled(handling, "summary", TRUE)
  /\ UNCHANGED <<routes, background>>

\* res.status(201).json(...)
Responded ==
  /\ handling.pc = "returned"
  /\ handling' = [handling EXCEPT !.pc = "responded"]
  /\ UNCHANGED <<routes, background>>

NextOracle ==
  \/ \E asked, waiting, allGoalsCompleted \in BOOLEAN :
       MessageReceived(asked, waiting, allGoalsCompleted)
  \/ \E outcome \in {"reply", "correction", "failure"} : PrimaryAttempt(outcome)
  \/ \E outcome \in {"correction", "nothing"} : StrictRetry(outcome)
  \/ ParsedReturned
  \/ DuplicateRetry
  \/ SummaryCalled
  \/ Responded

\* every oracle call settles (the client returns or throws) and the route
\* goes on from it
SpecOracle == Init /\ [][NextOracle]_vars /\ WF_vars(NextOracle)

\* ------------------------------------------- duplicate-question fallback
\* The texts the oracle words a question with: what is asked, and how it is
\* written (as it stands, or in capitals with spaces around it)
Wordings == {"a", "b"}
Shapes == {"plain", "LOUD  "}
RawTexts == [words : Wordings, shape : Shapes]
GreetingText == [words |-> "hello", shape |-> "plain"]

\* normalizeText: whitespace collapsed, trimmed, lower-cased
normalizeText(s) == [words |-> s.words, shape |-> "plain"]

\* a stored message with its text
Texted(m, text) == [sender |-> m.sender, type |-> m.type, q |-> m.q, text |-> text]

\* chatHistory.slice().reverse().find(m => m.sender === 'ai')
LastAi(chatHistory) ==
  Last(SelectSeq(chatHistory, LAMBDA m : m.sender = "ai"))

\* "Duplicate-question fallback (retry once)": first = the question of the
\* engine's answer, retry = the question of its answer when asked again.
\* The question that is sent, and the number of times the engine was asked again
DuplicateQuestionFallback(chatHistory, first, retry) ==
  IF /\ HasAiMessage(chatHistory)
     /\ normalizeText(first) = normalizeText(LastAi(chatHistory).text)
  THEN [question |-> retry, retried |-> 1]
  ELSE [question |-> first, retried |-> 0]

\* GET /:topicId on an empty chat, the greeting with its texts
GreetingAsks(text) ==
  \E msgs \in { <<Texted(PlainMsg, GreetingText), Texted(QuestionMsg, text)>>,
                <<Texted(PlainMsg, GreetingText)>> } :
    Greeting(msgs)

\* POST /:topicId/option with "Got it", the oracle answering with a question
\* worded first, and retry when it is asked again
OptionAsks(first, retry, p) ==
  Option(0, "Got it", p,
         <<Texted(QuestionMsg,
                  DuplicateQuestionFallback(ChatHistory(rows), first, retry).question)>>)

NextQuestions ==
  \/ \E text \in RawTexts : GreetingAsks(text)
  \/ MessageRequest(SessionInputs, MaxTurns)
  \/ \E first \in RawTexts, retry \in RawTexts :
       \E p \in FoundRows(rows, CurrentGoal(rows)) : OptionAsks(first, retry, p)

SpecQuestions == Init /\ [][NextQuestions]_vars

\* =================================================================== claims
\* C1: in every reachable state every chat_goal_progress row has is_completed
\* = true if and only if num_questions >= 2.
GoalCompletionInvariant ==
  \A r \in AllRows(rows) : r.done <=> (r.nq >= RequiredQuestions)

\* a goal has been completed by its second answer while another row has one
GoalCompletionWitness ==
  /\ \E r \in AllRows(rows) : r.nq = RequiredQuestions /\ r.done
  /\ \E r \in AllRows(rows) : r.nq = 1 /\ ~r.done

\* C2: for every chat_goal_progress row, after every graded answer,
\* num_questions = num_correct + num_incorrect.
CounterConservation ==
  \A r \in AllRows(rows) : r.nq = r.nc + r.ni

\* a row has counted a correct and an incorrect answer
CounterConservationWitness ==
  \E r \in AllRows(rows) : r.nq = 2 /\ r.nc = 1 /\ r.ni = 1

\* the step logs a graded answer
GradedStep == Len(turns') = Len(turns) + 1

\* the counters the graded answer of this step was added to: those of the
\* goal's latest row, all 0 when the goal had no row yet
CountersBefore ==
  LET g == Last(turns').goal
  IN IF rows[g] = <<>> THEN NewRow(0, UserMsg) ELSE Last(rows[g])

\* the row the graded answer of this step was written to
RowAfter == Last(rows'[Last(turns').goal])

\* the step adds one question and one answer, counted correct when counted is
\* true, and completes the goal by the new number of questions alone
CountsOne(counted) ==
  /\ RowAfter.nq = CountersBefore.nq + 1
  /\ RowAfter.nc = CountersBefore.nc + (IF counted THEN 1 ELSE 0)
  /\ RowAfter.ni = CountersBefore.ni + (IF counted THEN 0 ELSE 1)
  /\ RowAfter.done = (RowAfter.nq >= 2)

\* C3: each graded answer adds exactly 1 to questionsAsked and exactly 1 to
\* exactly one of correctCount / incorrectCount, choosing correctCount if and
\* only if the oracle's judgment has isCorrect = true, and sets isCompleted
\* from the new questionsAsked alone.
RecordAnswerAsJudged ==
  [][GradedStep => CountsOne(Last(turns').feedback_json.is_correct)]_vars

\* C3 as the code has it: correctCount is chosen if and only if the oracle's
\* judgment has isCorrect = true and a score of at least 50; from empty
\* progress one correct answer gives {1,1,0,not completed} and two incorrect
\* answers in sequence give {2,0,2,completed}.
RecordAnswerByScore ==
  [][GradedStep =>
       /\ CountsOne(Last(turns').feedback_json.is_correct
                    /\ Last(turns').feedback_json.score >= 50)
       /\ (CountersBefore.nq = 0 /\ Last(turns').is_correct)
            => (RowAfter.nq = 1 /\ RowAfter.nc = 1 /\ RowAfter.ni = 0 /\ ~RowAfter.done)
       /\ (CountersBefore.nq = 1 /\ CountersBefore.ni = 1 /\ ~Last(turns').is_correct)
            => (RowAfter.nq = 2 /\ RowAfter.nc = 0 /\ RowAfter.ni = 2 /\ RowAfter.done)]_vars

\* two answers were graded, the second one called correct with a score below
\* 50 and counted incorrect after an incorrect first one
RecordAnswerWitness ==
  /\ Len(turns) = 2
  /\ turns[2].feedback_json.is_correct
  /\ turns[2].feedback_json.score < 50
  /\ turns[1].goal = turns[2].goal
  /\ \E r \in AllRows(rows) : r.nq = 2 /\ r.nc = 0 /\ r.ni = 2 /\ r.done

\* the answers logged for goal g, and what the goal's rows have counted
AnswersLogged(g) == Len(SelectSeq(turns, LAMBDA t : t.goal = g))
QuestionsCounted(g) ==
  LET f[i \in 0..Len(rows[g])] == IF i = 0 THEN 0 ELSE f[i - 1] + rows[g][i].nq
  IN f[Len(rows[g])]
JudgedCounted(g) ==
  LET f[i \in 0..Len(rows[g])] ==
        IF i = 0 THEN 0 ELSE f[i - 1] + rows[g][i].nc + rows[g][i].ni
  IN f[Len(rows[g])]

\* C4: when message requests carrying graded answers for the same (learner,
\* goal) are handled concurrently, with their progress read and progress
\* write steps interleaved in any order, no increment is lost: once they are
\* done, questionsAsked has grown by the number of answers, and so has
\* correctCount + incorrectCount.
NoLostIncrement ==
  (\A c \in Conns : reqs[c] = Idle) =>
    \A g \in Goals : /\ QuestionsCounted(g) = AnswersLogged(g)
                     /\ JudgedCounted(g) = AnswersLogged(g)

\* C5: message handling for one (learner, topic) is serialized in arrival
\* order: no request derives its state while an earlier request has not yet
\* written its progress update and appended its outbound messages, so no
\* step starts a request while another one is in flight.
SerializedInArrivalOrder ==
  [][\A c \in Conns :
       (reqs[c] = Idle /\ reqs'[c] # Idle) => \A d \in Conns : reqs[d] = Idle]_vars

\* C6: once every goal of the topic has been complete, every subsequent
\* engine invocation takes the session-summary prompt and never the
\* ask-question (tutor) prompt, whatever the input and whichever route
\* (message, option) invokes it.
AllGoalsCompleteAbsorbing ==
  [][(ended /\ last' # "none") => last' = "summary"]_vars

\* While no learn-more request is handled, all-goals-complete is kept by
\* every step and every engine invocation in it takes the summary prompt:
\* the learn-more route alone lets C6 fail.
OnlyLearnMoreReopens ==
  [][AllGoalsCompleted(rows) =>
       /\ (last' # "none" => last' = "summary")
       /\ (AllGoalsCompleted(rows') \/ \E reply \in LearnMoreReplies : LearnMore(reply))]_vars

TotalsOf(evaluations) ==
  [total_questions |-> Len(evaluations),
   correct_answers |-> Len(SelectSeq(evaluations, IsCorrectEval)),
   overall_score_percent |-> OverallScorePercent(evaluations)]

\* C8: calculateSessionMetrics counts every TurnRecord of the learner for
\* every goal of the topic exactly once: total_questions = the number of such
\* records, correct_answers = the number with is_correct, and
\* overall_score_percent = round(mean of their score_percent) (0 when there
\* are none), also when more than 2 x goalCount records exist or a goal has
\* several progress rows; this in either version of the function.
CountsEveryTurnOnce ==
  \A evaluations \in { Evaluations(Goals, turns),
                       EvaluationsByProgressRow(Goals, rows, turns) } :
    TotalsOf(evaluations) = TotalsOf(turns)

\* C9: star_rating is 5 if overall_score_percent >= 90, 4 if >= 75, 3 if
\* >= 60, 2 if >= 40, else 1, for every score; a 3-goal topic with 6 graded
\* turns, 4 at 100 and 2 at 10, yields overall_score_percent = 70 and
\* star_rating = 3.
StarRatingThresholds ==
  \A i \in 1..Len(metrics) :
    LET m == metrics[i]
        s == m.overall_score_percent
    IN /\ s >= 90 => m.star_rating = 5
       /\ (s >= 75 /\ s < 90) => m.star_rating = 4
       /\ (s >= 60 /\ s < 75) => m.star_rating = 3
       /\ (s >= 40 /\ s < 60) => m.star_rating = 2
       /\ s < 40 => m.star_rating = 1
       /\ (/\ topicGoals = 1..3
           /\ Len(turns) = 6
           /\ Len(SelectSeq(turns, LAMBDA t : t.score = 100)) = 4
           /\ Len(SelectSeq(turns, LAMBDA t : t.score = 10)) = 2)
            => (s = 70 /\ m.star_rating = 3)

\* the metrics of the 3-goal session with 4 turns at 100 and 2 at 10
StarRatingWitness ==
  /\ topicGoals = 1..3
  /\ Len(turns) = 6
  /\ Len(SelectSeq(turns, LAMBDA t : t.score = 100)) = 4
  /\ Len(SelectSeq(turns, LAMBDA t : t.score = 10)) = 2
  /\ metrics # <<>>
  /\ metrics[1].overall_score_percent = 70
  /\ metrics[1].star_rating = 3

\* C10: an "I don't know" answer given while a question is pending is graded
\* with scorePercent = 10, isCorrect = false and errorType = "Knowledge Gap",
\* whatever the oracle returns for it.
IdkGradedAsKnowledgeGap ==
  [][(/\ GradedStep
      /\ Last(turns').raw = "idk"
      /\ analyzeChatHistory(ChatHistory(rows)).hasAskedQuestion)
       => /\ Last(turns').score = 10
          /\ ~Last(turns').is_correct
          /\ Last(turns').err = "Knowledge Gap"
          /\ Last(turns').feedback_json.score = 10
          /\ ~Last(turns').feedback_json.is_correct]_vars

\* C11: if the oracle call fails or its output cannot be parsed on both
\* attempts, the engine returns only the pre-written plain-text fallback with
\* no correction object, and the message handler then appends no TurnRecord
\* and leaves num_questions, num_correct, num_incorrect and is_completed of
\* every GoalProgress row unchanged (a row it creates to link the learner's
\* message starts at zero); no score is fabricated.
DegradedWritesNoGrade ==
  [][DegradedRequest =>
       /\ \A raw \in RawKinds : \A aiResponse \in DegradedResponses(raw) :
            aiResponse.messages = FallbackMessages /\ aiResponse.user_correction = <<>>
       /\ turns' = turns
       /\ \A g \in Goals :
            /\ Len(rows'[g]) >= Len(rows[g])
            /\ \A i \in 1..Len(rows'[g]) :
                 IF i <= Len(rows[g]) THEN rows'[g][i] = rows[g][i]
                 ELSE /\ rows'[g][i].nq = 0 /\ rows'[g][i].nc = 0
                      /\ rows'[g][i].ni = 0 /\ ~rows'[g][i].done]_vars

\* a degraded request has been handled in a session with counted answers
DegradedWritesNoGradeWitness ==
  /\ last = "tutor"
  /\ Len(turns) = 3
  /\ \E r \in AllRows(rows) : r.nq = 2 /\ r.done
  /\ \E r \in AllRows(rows) : r.nq = 1 /\ r.msg = UserMsg

\* C12: the learner's own message is never lost from the transcript even
\* when grading fails: after a request that ends in the degraded fallback
\* path the learner's message is part of the chat transcript of the (learner,
\* topic) that later turns and the history endpoint read.
LearnerMessageKept ==
  [][DegradedRequest =>
       /\ RowCount(rows') = RowCount(rows) + 1
       /\ Last(Transcript(rows')) = UserMsg]_vars

\* the step handles "Explain" picked on the correction of turn t
ExplainOn(t) ==
  \E p \in FoundRows(rows, CurrentGoal(rows)) :
    \E messages \in { a.messages :
                        a \in AiResponses(Judgments(SessionInputs, "answer"), TRUE, FALSE,
                                          ChatHistory(rows), rows) } :
      Option(t, "Explain", p, messages)

\* C13: an explanation request leaves GoalProgress.questionsAsked unchanged,
\* appends no TurnRecord, and increments explain_loop_count of the TurnRecord
\* it refers to by exactly 1, for every referenced TurnRecord, whichever goal
\* is current when the request arrives.
ExplainCountsOnce ==
  [][\A t \in 1..Len(turns) :
       ExplainOn(t) =>
         /\ \A g \in Goals : \A i \in 1..Len(rows[g]) :
              \E j \in 1..Len(rows'[g]) :
                rows'[g][j].id = rows[g][i].id /\ rows'[g][j].nq = rows[g][i].nq
         /\ Len(turns') = Len(turns)
         /\ turns'[t].explain = turns[t].explain + 1
         /\ \A u \in 1..Len(turns) : u # t => turns'[u] = turns[u]]_vars

\* C14: when the last tutor message is a movement prompt and the learner's
\* message is an affirmative, the turn writes no TurnRecord and changes no
\* GoalProgress counter, whatever shape the oracle's reply has.
AffirmativeWritesNothing ==
  [][(/\ analyzeChatHistory(ChatHistory(rows)).isWaitingForMovement
      /\ MessageRequest(MovementInputs, MaxTurns))
       => /\ turns' = turns
          /\ \A g \in Goals : \A i \in 1..Len(rows[g]) :
               \E j \in 1..Len(rows'[g]) :
                 /\ rows'[g][j].id = rows[g][i].id
                 /\ rows'[g][j].nq = rows[g][i].nq
                 /\ rows'[g][j].nc = rows[g][i].nc
                 /\ rows'[g][j].ni = rows[g][i].ni]_vars


\* C15: hasAskedQuestion is true iff the most recent tutor message (of type
\* text or movement_prompt) of the history contains '?' and has type text;
\* isWaitingForMovement is true iff that message has type movement_prompt;
\* the two are never both true.
LastTutorMessage(chatHistory) == Last(SelectSeq(chatHistory, IsTutorMsg))
HasTutorMessage(chatHistory) == SelectSeq(chatHistory, IsTutorMsg) # <<>>

StateFromTranscriptTail ==
  LET chatHistory == ChatHistory(rows)
      a == analyzeChatHistory(chatHistory)
  IN /\ a.hasAskedQuestion <=>
          /\ HasTutorMessage(chatHistory)
          /\ LastTutorMessage(chatHistory).q
          /\ LastTutorMessage(chatHistory).type = "text"
     /\ a.isWaitingForMovement <=>
          /\ HasTutorMessage(chatHistory)
          /\ LastTutorMessage(chatHistory).type = "movement_prompt"
     /\ ~(a.hasAskedQuestion /\ a.isWaitingForMovement)


\* C16: whatever the oracle answers to a request, a question whose normalized
\* text equals that of a question asked earlier in the transcript is sent
\* only after the oracle was asked again exactly once.
AskedBefore(transcript, text) ==
  \E i \in 1..Len(transcript) :
    /\ transcript[i].sender = "ai"
    /\ transcript[i].q
    /\ transcript[i].type = "text"
    /\ normalizeText(transcript[i].text) = normalizeText(text)

RepeatOnlyAfterRetry ==
  \A first \in RawTexts, retry \in RawTexts :
    LET sent == DuplicateQuestionFallback(ChatHistory(rows), first, retry)
    IN AskedBefore(Transcript(rows), sent.question) => sent.retried = 1


\* C17: whatever feedback the oracle writes in a correction, the graded
\* answer is stored with a feedback whose is_correct is the boolean the
\* oracle's value coerces to, whose score is 100 if correct else 10 when the
\* oracle's score_percent is missing or not a number, whose error_type is
\* the generic category when an incorrect judgment has none, and which is an
\* incorrect judgment with score 10 when the feedback is missing or no object.
Normalized(fb, feedback) ==
  /\ feedback.is_correct \in BOOLEAN
  /\ fb.t = "object" =>
       /\ feedback.is_correct = Truthy(fb.is_correct)
       /\ fb.score_percent.t # "number" =>
            feedback.score = IF feedback.is_correct THEN 100 ELSE 10
       /\ (~Truthy(fb.error_type) /\ ~feedback.is_correct) => feedback.err = "Conceptual"
  /\ fb.t # "object" => (~feedback.is_correct /\ feedback.score = 10)

IncorrectScoresAboveZero ==
  \A i \in 1..Len(turns) : ~turns[i].is_correct => turns[i].score # 0


\* C19: after every graded answer and every option selection the topic's
\* completion_percent is round(100 * completedGoalCount / totalGoalCount)
\* (0 without goals), completedGoalCount being the number of distinct goals
\* of the topic the learner has a completed row for, and its is_completed is
\* true iff completion_percent >= 50.
TopicFollowsGoals ==
  LET completedGoalCount ==
        Cardinality({ g \in topicGoals : \E i \in 1..Len(rows[g]) : rows[g][i].done })
      totalGoalCount == Cardinality(topicGoals)
  IN /\ topic.completion_percent =
          IF totalGoalCount = 0 THEN 0
          ELSE Round(100 * completedGoalCount, totalGoalCount)
     /\ topic.is_completed <=> topic.completion_percent >= 50

\* a request has just been answered, and one of the two goals is completed
TopicFollowsGoalsWitness ==
  /\ Len(turns) >= RequiredQuestions
  /\ last = "tutor"
  /\ topic = [completion_percent |-> 50, is_completed |-> TRUE]


\* C20: the turn log holds exactly one record per graded answer: for every
\* goal the number of the learner's learning turns equals the questions
\* counted on the goal's progress rows, after any sequence of requests.
OneTurnPerGradedAnswer ==
  \A g \in Goals : AnswersLogged(g) = QuestionsCounted(g)


\* C21: a learning turn is immutable once created: no step of the message,
\* option or learn-more routes removes a turn or changes a field of it, but
\* for explain_loop_count, which only an "Explain" option request changes,
\* by adding 1.
Unexplained(t) == [t EXCEPT !.explain = 0]

TurnsImmutable ==
  [][/\ Len(turns') >= Len(turns)
     /\ \A i \in 1..Len(turns) :
          /\ Unexplained(turns'[i]) = Unexplained(turns[i])
          /\ turns'[i].explain \in { turns[i].explain, turns[i].explain + 1 }
          /\ turns'[i].explain # turns[i].explain => OptionRequest({"Explain"})]_vars

\* an explained turn, and an answer graded after it
TurnsImmutableWitness ==
  \E i \in 1..Len(turns) : turns[i].explain = 1 /\ i < Len(turns)


\* C22: whenever the engine is invoked with all goals complete, on any call
\* of the message route, the option route or a duplicate-question retry, the
\* session summary it asks for carries the metrics computed from the stored
\* learning turns and progress rows, never placeholder metrics.
SummaryCarriesMetrics ==
  AllGoalsCompleted(rows) =>
    \A c \in EngineCalls :
      (c.route = "option" => optionRoute) =>
        PromptMetrics(SessionMetricsOf(c.ids, topicGoals, rows, turns))
          = Headline(calculateSessionMetrics(topicGoals, rows, turns))


\* C23: content-generation cycles never overlap: at most one call of
\* processPendingTasks is past the isProcessing check at any time, and a
\* call made by the timer, the startup or triggerManualProcessing while a
\* cycle is under way returns at once, having read and changed no task.
CycleUnderWay == \E c \in Calls : cycles[c].pc = "running"

CyclesNeverOverlap ==
  /\ [](Cardinality({ c \in Calls : cycles[c].pc = "running" }) <= 1)
  /\ [][\A c \in Calls :
          (CycleUnderWay /\ Free(cycles[c]) /\ cycles'[c] # cycles[c])
            => /\ cycles'[c].pc = "skipped"
               /\ cycles'[c].todo = <<>>
               /\ tasks' = tasks]_vars

\* a cycle that has handled a task is under way, and the timer's call and a
\* manual call made meanwhile have returned at once
CyclesNeverOverlapWitness ==
  \E c \in Calls, d \in Calls, e \in Calls :
    /\ cycles[c].pc = "running"
    /\ Len(cycles[c].todo) < NumTasks
    /\ cycles[d].pc = "skipped" /\ cycles[d].by = "interval"
    /\ cycles[e].pc = "skipped" /\ cycles[e].by = "manual"


\* C24: engagement-notification runs never overlap: a run started by the
\* hourly timer or the startup timeout while another run is in progress is
\* skipped, so at most one run is in progress at any time.
RunsNeverOverlap ==
  Cardinality({ r \in Calls : ~Free(runs[r]) }) <= 1


\* C25: every tutor message the message route stores is part of the
\* transcript the next turn reads: a graded answer leaves a transcript that
\* has grown and ends in the tutor's reply to that answer.
TutorMessagesReachTranscript ==
  [][GradedStep =>
       /\ Len(Transcript(rows')) > Len(Transcript(rows))
       /\ Last(Transcript(rows')).sender = "ai"]_vars


\* C26: a message handled when every goal is complete already (currentGoal
\* is null) creates no learning turn and changes no progress row and no topic
\* row, whatever correction the oracle returns with its reply.
NoGradingAfterLastGoal ==
  [][\A p \in SessionInputs :
       (AllGoalsCompleted(rows) /\ Message(p[1], <<normalizeFeedback(p[2])>>))
         => UNCHANGED <<rows, turns, topic>>]_vars

\* every goal is complete, four answers are logged, and the last request
\* was answered with the summary prompt
NoGradingAfterLastGoalWitness ==
  /\ AllGoalsCompleted(rows)
  /\ Len(turns) = NumGoals * RequiredQuestions
  /\ last = "summary"


\* C27: with messages handled one at a time no goal ever accumulates more
\* than 2 graded questions: the answers graded for a goal, and the questions
\* counted on its progress rows, never exceed 2.
GradedOnlyTwice ==
  \A g \in Goals :
    /\ AnswersLogged(g) <= RequiredQuestions
    /\ QuestionsCounted(g) <= RequiredQuestions


\* C28: the goal graded on a turn is the first goal in order whose progress
\* is missing or incomplete, so in every reachable state the completed goals
\* form a prefix of the goal order, and currentGoal is null exactly when all
\* goals are complete.
CompletedGoalsArePrefix ==
  /\ \A g \in Goals : LatestDone(rows, g) => \A h \in 1..(g - 1) : LatestDone(rows, h)
  /\ CurrentGoal(rows) = 0 <=> AllGoalsCompleted(rows)

\* the goal of every graded answer is the current goal of the state it
\* arrived in
GradesCurrentGoal ==
  [][GradedStep => Last(turns').goal = CurrentGoal(rows)]_vars


\* C29: when a graded answer completes the last incomplete goal, the same
\* request appends a session-summary message to its output, whatever the
\* oracle does, and returns all_goals_completed = true.
SummaryFollowsLastGoal ==
  [][(GradedStep /\ ~AllGoalsCompleted(rows) /\ AllGoalsCompleted(rows')) =>
       /\ AllGoalsCompletedFlag(rows')
       /\ \A appended \in AutoSummary(rows', ChatHistory(rows)) :
            /\ appended # <<>>
            /\ \A i \in 1..Len(appended) : appended[i].type = "session_summary"]_vars


\* C30: handling one message ends with a response after a bounded number of
\* oracle calls: an engine call makes at most 2 primary attempts and at most
\* 1 strict correction retry, the duplicate check calls the engine again at
\* most once, a request makes at most 8 oracle calls, and every request
\* that is being handled is responded to.
MessageHandlingTerminates ==
  /\ [](/\ handling.attempts <= 2
        /\ handling.retries <= 1
        /\ handling.duplicates <= 1
        /\ handling.oracle <= 8)
  /\ (handling.pc = "attempt") ~> (handling.pc = "responded")

\* a request has been responded to after eight oracle calls: three for the
\* first engine call, three for the duplicate retry and two for the summary
MessageHandlingTerminatesWitness ==
  /\ handling.pc = "responded"
  /\ handling.call = "summary"
  /\ handling.duplicates = 1
  /\ handling.oracle = 8


\* C31: selecting an option never changes num_questions, num_correct or
\* num_incorrect of an existing chat_goal_progress row; the only change it
\* can make to such a row is setting is_completed = true when num_questions
\* is 2 or more.
OptionKeepsCounters ==
  [][OptionRequest(Options) =>
       \A r \in AllRows(rows) :
         \E q \in AllRows(rows') :
           /\ q.id = r.id
           /\ [q EXCEPT !.done = r.done] = r
           /\ q.done # r.done => (q.done /\ r.nq >= RequiredQuestions)]_vars

\* an explanation has been asked for on an answer whose goal has both of its
\* questions counted
OptionKeepsCountersWitness ==
  \E i \in 1..Len(turns) :
    /\ turns[i].explain = 1
    /\ Last(rows[turns[i].goal]).nq = RequiredQuestions


\* C32: the projected score of the summary is the score with every incorrect
\* answer of a weak goal counted as correct, capped at the number of
\* questions: once a summary has been shown it is never above 100 and never
\* below the current overall score.
ProjectedScoreWithinBounds ==
  (ended /\ turns # <<>>) =>
    \E m \in { calculateSessionMetrics(topicGoals, rows, turns) } :
      /\ ProjectedScore(m) <= 100
      /\ ProjectedScore(m) >= m.overall_score_percent


\* C33: the all_goals_completed field of a message response is true exactly
\* when every goal is complete as the response is sent, also on turns that
\* grade nothing and on turns sent after the session has ended.
AllGoalsCompletedReported ==
  [][(\E p \in SessionInputs :
        Message(p[1], <<>>) \/ Message(p[1], <<normalizeFeedback(p[2])>>)) =>
       ((CompletedGoalsCountOf(GradedStep, rows') >= NumGoals)
          <=> AllGoalsCompleted(rows'))]_vars


ProcessingFlagCleared ==
  /\ isProcessing ~> ~isProcessing
  /\ [](isProcessing => CycleUnderWay)

\* a call was skipped while a cycle was under way, a task of a cycle failed,
\* and the flag is lowered with no cycle under way
ProcessingFlagClearedWitness ==
  /\ ~isProcessing
  /\ ~CycleUnderWay
  /\ \E k \in TaskIds : tasks[k] = "failed"
  /\ \E c \in Calls : cycles[c].pc = "skipped"

\* C36: whatever runs of the content generation were made for a task (a
\* retry of a failed task by a later cycle, a run after signup reset the
\* status to pending), every chapter of its subject is stored once at most
ChaptersStoredOnce ==
  \A k \in TaskIds, ch \in ChapterIds : chapters[k][ch] <= 1

====
